---- MODULE Spec2Model ----
(***************************************************************************)
(* State reconciliation core of the energy-grid dashboard.                 *)
(*                                                                         *)
(* Client: src/src/App.tsx (second App component, lines 423-760), the      *)
(* cache helper updateGridCache (src/src/main.tsx 52-88), the node card    *)
(* GridNode (src/src/tests/ControlPanel.test.tsx 97-207) and ControlPanel  *)
(* (src/src/components/ControlPanel.tsx 121-212).                          *)
(* Server: the mock GraphQL server with mutations (src/unnamed/part_001).  *)
(* Every operation travels over one WebSocket (src/unnamed/part_003), so   *)
(* requests and responses are two FIFO queues.                             *)
(***************************************************************************)
EXTENDS Integers, Sequences, FiniteSets, TLC

VARIABLES
    gridData,        \* server: the mock backing store (list of entries)
    serverSub,       \* server: id of the running gridUpdate generator, 0 if none
    req,             \* WebSocket, client -> server
    resp,            \* WebSocket, server -> client
    now,             \* wall clock (client and server share localhost)
    budget,          \* remaining user / generator events
    loaded,          \* client: queryData is defined
    cache,           \* client: Apollo cache, the grid list of GET_GRID_DATA
    layers,          \* client: optimistic layers of in-flight updateVoltage calls
    voltageHistory,  \* client: useState voltageHistory
    alerts,          \* client: useState alerts (Record<id, string | null>)
    updatedId,       \* client: useState updatedId
    timers,          \* client: pending setTimeout(() => setUpdatedId(null), 500)
    isRefreshing,    \* client: useState isRefreshing
    isPaused,        \* client: useState isPaused
    mutationLoading, \* client: useState mutationLoading {add, delete}
    subData,         \* client: data of useSubscription
    subEpoch,        \* client: id of the current subscription operation
    ev,              \* the last event processed (observation only)
    alertsV2,        \* intermediate App: useState alerts (string[])
    alertsV1,        \* first App: useState alerts (string[])
    alertTimers,     \* first App: pending setTimeout callbacks of addAlert
    registered,      \* number of addAlert calls so far (observation only)
    historyV1,       \* first App: useState voltageHistory
    storage,         \* first App: localStorage item "voltageHistory"
    mounted,         \* first App: the component tree is mounted
    session,         \* first App: number of page loads (observation only)
    clearTimers      \* highlight in real time: the pending
                     \* setUpdatedId(null) timeouts, with the time each is due

vars == <<gridData, serverSub, req, resp, now, budget, loaded, cache, layers,
          voltageHistory, alerts, updatedId, timers, isRefreshing, isPaused,
          mutationLoading, subData, subEpoch, ev, alertsV2, alertsV1,
          alertTimers, registered, historyV1, storage, mounted, session,
          clearTimers>>

\* State of the latest App, apart from the clock and the event budget.
latestVars == <<gridData, serverSub, req, resp, loaded, cache, layers,
                voltageHistory, alerts, updatedId, timers, isRefreshing,
                isPaused, mutationLoading, subData, subEpoch, ev>>

\* State of the two earlier App components.
earlierVars == <<alertsV2, alertsV1, alertTimers, registered, historyV1,
                 storage, mounted, session>>

serverVars == <<gridData, serverSub>>
uiVars == <<voltageHistory, alerts, updatedId, timers, isRefreshing, isPaused,
            mutationLoading, subData, subEpoch>>

----------------------------------------------------------------------------
(* Bounds *)

MaxTime == 1
MaxEvents == 2

(* Program constants *)

MAX_HISTORY == 200
HARD_MIN == 220
HARD_MAX == 239
SAFE_MIN == 223
SAFE_MAX == 237
DEFAULT_VOLTAGE == 230

(* Small input sets *)

NodeIds == {"1", "2", "3", "4"}
AddIds == {"1", "4"}
Deltas == {-5, 4}
UserInputs == {210, 230, 300}
NaN == -1

\* What the user leaves in a node's voltage field (type="number": text that
\* is not a number reads back as the empty string).
Typed == {"", "abc"} \cup {ToString(v) : v \in UserInputs}

----------------------------------------------------------------------------
(* Values *)

Entry(i, v, t) == [id |-> i, voltage |-> v, timestamp |-> t]
NoEntry == Entry("", 0, 0)
None == ""

Alert(k, v) == [kind |-> k, voltage |-> v]
Absent == Alert("absent", 0)
NullAlert == Alert("null", 0)

\* WebSocket messages.  asked is carried for observation only: the number
\* the user typed, before GridNode clamps it.
Msg(k, i, v, e, g, n, o) ==
    [kind |-> k, id |-> i, voltage |-> v, entry |-> e, grid |-> g,
     epoch |-> n, ok |-> o, asked |-> 0]

\* The last event, with what the client held just before it.
Ev(m, h, a, l) == [msg |-> m, histLen |-> h, alert |-> a, layer |-> l]


InitialGridData ==
    << Entry("1", 230, 0), Entry("2", 225, 0), Entry("3", 235, 0) >>

\* Alert texts of the earlier Apps: `Node ${id} voltage ${voltage}V out of
\* safe range!` and the failure texts of the catch handlers.
\* localStorage.getItem: null when the key was never set
NullItem == [kind |-> "null", items |-> <<>>]

RangeText(i, v) == [what |-> "out of safe range", id |-> i, voltage |-> v]
FailText(op, i) == [what |-> op, id |-> i, voltage |-> 0]

\* An element of an alert list: its text, and the ordinal of the addAlert call
\* that put it there (observation only; the lists hold strings).
Toast(text, n) == [text |-> text, reg |-> n]

----------------------------------------------------------------------------
(* Pure helpers *)

Max(a, b) == IF a > b THEN a ELSE b
Min(a, b) == IF a < b THEN a ELSE b

\* (a wrong clamp: lower bound only)
ClampLow(v) == Max(HARD_MIN, v)

\* Math.max(220, Math.min(239, parsedVoltage))
Clamp(v) == Max(HARD_MIN, Min(HARD_MAX, v))

ServerClamp(v) == Max(HARD_MIN, Min(HARD_MAX, v))

\* (a wrong test: the safe bounds themselves raise an alert)
OutOfOpenRange(v) == v <= SAFE_MIN \/ v >= SAFE_MAX

\* voltage < 223 || voltage > 237
OutOfSafeRange(v) == v < SAFE_MIN \/ v > SAFE_MAX

Ids(g) == { g[k].id : k \in 1..Len(g) }

Range(s) == { s[k] : k \in 1..Len(s) }

\* (a wrong slice: keeps the front)
First200(s) ==
    IF Len(s) > MAX_HISTORY THEN SubSeq(s, 1, MAX_HISTORY) ELSE s

\* .slice(-200)
Last200(s) ==
    IF Len(s) > MAX_HISTORY
    THEN SubSeq(s, Len(s) - MAX_HISTORY + 1, Len(s))
    ELSE s

\* (a wrong replace: only a strictly newer timestamp wins)
MapReplaceNewer(g, e) ==
    [k \in 1..Len(g) |->
        IF g[k].id = e.id /\ e.timestamp > g[k].timestamp THEN e ELSE g[k]]

\* (a wrong replace: the other nodes take the new reading as well)
MapReplaceAll(g, e) ==
    [k \in 1..Len(g) |->
        IF g[k].id = e.id THEN e ELSE [g[k] EXCEPT !.voltage = e.voltage]]

\* grid.map((entry) => entry.id === newEntry.id ? newEntry : entry)
MapReplace(g, e) == [k \in 1..Len(g) |-> IF g[k].id = e.id THEN e ELSE g[k]]

FilterOut(g, i) == SelectSeq(g, LAMBDA x : x.id # i)

FilterOutAt(g, k) == SubSeq(g, 1, k - 1) \o SubSeq(g, k + 1, Len(g))

RECURSIVE ApplyLayers(_, _)
ApplyLayers(g, ls) ==
    IF ls = <<>> THEN g ELSE ApplyLayers(MapReplace(g, Head(ls)), Tail(ls))

View(c, ls) == ApplyLayers(c, ls)

\* Array.prototype.findIndex, 1-based; 0 when nothing matches.
FindIndex(s, P(_)) ==
    LET hits == {k \in 1..Len(s) : P(s[k])}
    IN  IF hits = {} THEN 0 ELSE CHOOSE k \in hits : \A j \in hits : k <= j

\* parseInt(voltageInput)
parseInt(text) ==
    IF \E v \in UserInputs : ToString(v) = text
    THEN CHOOSE v \in UserInputs : ToString(v) = text
    ELSE NaN

\* (a wrong guard: every click submits)
AnyInput(parsedVoltage) == TRUE

\* !isNaN(parsedVoltage)
IsNumber(parsedVoltage) == parsedVoltage # NaN

----------------------------------------------------------------------------
(* History Log updaters (the functions passed to setVoltageHistory) *)

\* queryData merge effect: drop entries of ids the grid no longer has,
\* append the whole grid, keep the last 200.
MergeEffect(grid, prev) ==
    LET serverIds == Ids(grid)
        filtered == SelectSeq(prev, LAMBDA entry : entry.id \in serverIds)
    IN  Last200(filtered \o grid)

\* useEffect(..., [queryData]) runs only when queryData changed.
OnQueryData(wasLoaded, oldView, isLoaded, newView, prev) ==
    IF isLoaded /\ (~wasLoaded \/ newView # oldView)
    THEN MergeEffect(newView, prev)
    ELSE prev

\* subscription effect and updateVoltage .then: append unless an entry with
\* the same id and timestamp is already there.
AppendIfNew(prev, e) ==
    IF FindIndex(prev, LAMBDA x : x.id = e.id /\ x.timestamp = e.timestamp) = 0
    THEN Last200(Append(prev, e))
    ELSE prev

\* addNode .then: unconditional append.
AppendEntry(prev, e) == Last200(Append(prev, e))

\* deleteNode update callback: purge the node's entries.
PurgeId(prev, i) == SelectSeq(prev, LAMBDA x : x.id # i)

\* handleRefresh: each returned entry replaces the first entry of its id,
\* or is pushed when the id has none.
RECURSIVE RefreshForEach(_, _)
RefreshForEach(updatedHistory, grid) ==
    IF grid = <<>> THEN updatedHistory
    ELSE LET newEntry == Head(grid)
             index == FindIndex(updatedHistory, LAMBDA x : x.id = newEntry.id)
         IN  RefreshForEach(
                 IF index # 0
                 THEN [updatedHistory EXCEPT ![index] = newEntry]
                 ELSE Append(updatedHistory, newEntry),
                 Tail(grid))

RefreshMerge(prev, grid) == Last200(RefreshForEach(prev, grid))

\* The two setVoltageHistory updaters of one response (the effect's and the
\* promise continuation's) are queued in either order.
Ordered(effectFirst, prev, Eff(_), Cont(_)) ==
    IF effectFirst THEN Cont(Eff(prev)) ELSE Eff(Cont(prev))

----------------------------------------------------------------------------
(* Alert Register *)

\* voltage < 223 || voltage > 237 ? message : null
AlertFor(v) == IF OutOfSafeRange(v) THEN Alert("range", v) ELSE NullAlert

addAlert(as, nodeId, message) == [as EXCEPT ![nodeId] = message]

\* (a wrong removal: the alert entry stays)
KeepAlert(as, nodeId) == as

\* delete newAlerts[id]
DeleteAlert(as, nodeId) == [as EXCEPT ![nodeId] = Absent]

\* Subscription effect, deps [subData, isPaused, addAlert]:
\* runs its body only if (subData?.gridUpdate && !isPaused).
EffectRuns(sub, paused) == sub # NoEntry /\ ~paused

EffectAlerts(sub, paused, as) ==
    IF EffectRuns(sub, paused)
    THEN addAlert(as, sub.id, AlertFor(sub.voltage)) ELSE as

EffectUpdatedId(sub, paused, u) == IF EffectRuns(sub, paused) THEN sub.id ELSE u

EffectTimers(sub, paused, n) == IF EffectRuns(sub, paused) THEN n + 1 ELSE n

EffectHistory(sub, paused, prev) ==
    IF EffectRuns(sub, paused) THEN AppendIfNew(prev, sub) ELSE prev

\* (a wrong filter: any operation's messages are taken while not paused)
NotPaused(m, epoch, paused) == ~paused

\* A gridUpdate message reaches the hook only while its operation is the
\* one currently subscribed (skip: isPaused unsubscribes it).
Subscribed(m, epoch, paused) == m.epoch = epoch /\ ~paused

\* useSubscription: while skipped, and until the first message of a restarted
\* operation, data is undefined.
SkipResult(sub) == NoEntry

----------------------------------------------------------------------------
(* mutationLoading updaters *)

\* setMutationLoading((prev) => ({ ...prev, [kind]: true }))
InFlight(prev, kind) == [prev EXCEPT ![kind] = TRUE]

\* (a wrong updater: the flag is left as it is)
StillLoading(prev, kind) == prev

\* setMutationLoading((prev) => ({ ...prev, [kind]: false }))
Settled(prev, kind) == [prev EXCEPT ![kind] = FALSE]

----------------------------------------------------------------------------
(* updateGridCache *)

\* (a wrong helper: the cache is left alone while the client is paused)
updateGridCacheIfActive(isLoaded, grid, newEntry, operation) ==
    IF ~isLoaded \/ isPaused THEN grid
    ELSE CASE operation = "update" -> MapReplace(grid, newEntry)
           [] operation = "add"    -> Append(grid, newEntry)
           [] operation = "delete" -> FilterOut(grid, newEntry.id)
           [] OTHER                -> grid

updateGridCache(isLoaded, grid, newEntry, operation) ==
    IF ~isLoaded THEN grid
    ELSE CASE operation = "update" -> MapReplace(grid, newEntry)
           [] operation = "add"    -> Append(grid, newEntry)
           [] operation = "delete" -> FilterOut(grid, newEntry.id)
           [] OTHER                -> grid

\* (a wrong write: an entity the grid list does not have is inserted)
WriteOrInsert(isLoaded, grid, e) ==
    IF e.id \in Ids(grid) THEN MapReplace(grid, e) ELSE Append(grid, e)

\* InMemoryCache normalises Grid objects by id: writing a result updates the
\* entity wherever the grid list references it.
WriteEntity(isLoaded, grid, e) == IF isLoaded THEN MapReplace(grid, e) ELSE grid

----------------------------------------------------------------------------
(* Server resolvers (mock backing store) *)

ServerFind(g, i) == FindIndex(g, LAMBDA x : x.id = i)

Randomize(g, d, t) ==
    [k \in 1..Len(g) |-> Entry(g[k].id, ServerClamp(g[k].voltage + d), t)]

Send(q, m) == Append(q, m)

\* The earlier App components, freshly mounted with nothing stored.
EarlierIdle ==
    /\ alertsV2 = <<>>
    /\ alertsV1 = <<>>
    /\ alertTimers = <<>>
    /\ registered = 0
    /\ historyV1 = <<>>
    /\ storage = NullItem
    /\ mounted = TRUE
    /\ session = 1
    /\ clearTimers = <<>>

Init ==
    /\ EarlierIdle
    /\ gridData = InitialGridData
    /\ serverSub = 0
    /\ req \in { << Msg("query", None, 0, NoEntry, <<>>, 0, FALSE),
                    Msg("start", None, 0, NoEntry, <<>>, 1, TRUE) >>,
                 << Msg("start", None, 0, NoEntry, <<>>, 1, TRUE),
                    Msg("query", None, 0, NoEntry, <<>>, 0, FALSE) >> }
    /\ resp = <<>>
    /\ now = 0
    /\ budget = MaxEvents
    /\ loaded = FALSE
    /\ cache = <<>>
    /\ layers = <<>>
    /\ voltageHistory = <<>>
    /\ alerts = [i \in NodeIds |-> Absent]
    /\ updatedId = None
    /\ timers = 0
    /\ isRefreshing = FALSE
    /\ isPaused = FALSE
    /\ mutationLoading = [add |-> FALSE, delete |-> FALSE]
    /\ subData = NoEntry
    /\ subEpoch = 1
    /\ ev = Ev(Msg("init", None, 0, NoEntry, <<>>, 0, TRUE), 0, Absent, NoEntry)

Tick ==
    /\ now < MaxTime
    /\ now' = now + 1
    /\ UNCHANGED <<gridData, serverSub, req, resp, budget, loaded, cache,
                   layers, uiVars, ev>>
    /\ UNCHANGED <<earlierVars, clearTimers>>

\* Query.grid resolve: fresh readings for every node. ok carries "refetch".
ServerQuery ==
    /\ req # <<>> /\ Head(req).kind = "query"
    /\ \E d \in Deltas :
          /\ gridData' = Randomize(gridData, d, now)
          /\ resp' = Send(resp, Msg("queryRes", None, 0, NoEntry, gridData',
                                    0, Head(req).ok))
    /\ req' = Tail(req)
    /\ UNCHANGED <<serverSub, now, budget, loaded, cache, layers, uiVars, ev>>
    /\ UNCHANGED <<earlierVars, clearTimers>>

\* (a wrong resolver: an update of a node the store does not have creates it
\* and is confirmed)
ServerUpsert ==
    /\ req # <<>> /\ Head(req).kind = "update"
    /\ LET m == Head(req)
           k == ServerFind(gridData, m.id)
           e == Entry(m.id, m.voltage, now)
       IN  /\ gridData' = IF k # 0 THEN [gridData EXCEPT ![k] = e]
                          ELSE Append(gridData, e)
           /\ resp' = Send(resp, [Msg("updateRes", m.id, m.voltage, e, <<>>,
                                      0, TRUE)
                                  EXCEPT !.asked = m.asked])
    /\ req' = Tail(req)
    /\ UNCHANGED <<serverSub, now, budget, loaded, cache, layers, uiVars, ev>>
    /\ UNCHANGED <<earlierVars, clearTimers>>

\* Mutation.updateVoltage resolve
ServerUpdate ==
    /\ req # <<>> /\ Head(req).kind = "update"
    /\ LET m == Head(req)
           k == ServerFind(gridData, m.id)
       IN  IF k # 0
           THEN /\ gridData' = [gridData EXCEPT ![k] = Entry(m.id, m.voltage, now)]
                /\ resp' = Send(resp, [Msg("updateRes", m.id, m.voltage,
                                           gridData'[k], <<>>, 0, TRUE)
                                       EXCEPT !.asked = m.asked])
           ELSE /\ gridData' = gridData
                /\ resp' = Send(resp, [Msg("updateRes", m.id, m.voltage,
                                           NoEntry, <<>>, 0, FALSE)
                                       EXCEPT !.asked = m.asked])
    /\ req' = Tail(req)
    /\ UNCHANGED <<serverSub, now, budget, loaded, cache, layers, uiVars, ev>>
    /\ UNCHANGED <<earlierVars, clearTimers>>

\* (a wrong resolver: an id the store already has is added again)
ServerAddAgain ==
    /\ req # <<>> /\ Head(req).kind = "add"
    /\ LET m == Head(req)
       IN  /\ gridData' = Append(gridData, Entry(m.id, DEFAULT_VOLTAGE, now))
           /\ resp' = Send(resp, Msg("addRes", m.id, 0,
                                     Entry(m.id, DEFAULT_VOLTAGE, now),
                                     <<>>, 0, TRUE))
    /\ req' = Tail(req)
    /\ UNCHANGED <<serverSub, now, budget, loaded, cache, layers, uiVars, ev>>
    /\ UNCHANGED <<earlierVars, clearTimers>>

\* Mutation.addNode resolve
ServerAdd ==
    /\ req # <<>> /\ Head(req).kind = "add"
    /\ LET m == Head(req)
       IN  IF ServerFind(gridData, m.id) # 0
           THEN /\ gridData' = gridData
                /\ resp' = Send(resp, Msg("addRes", m.id, 0, NoEntry, <<>>, 0, FALSE))
           ELSE /\ gridData' = Append(gridData, Entry(m.id, DEFAULT_VOLTAGE, now))
                /\ resp' = Send(resp, Msg("addRes", m.id, 0,
                                          Entry(m.id, DEFAULT_VOLTAGE, now),
                                          <<>>, 0, TRUE))
    /\ req' = Tail(req)
    /\ UNCHANGED <<serverSub, now, budget, loaded, cache, layers, uiVars, ev>>
    /\ UNCHANGED <<earlierVars, clearTimers>>

\* Mutation.deleteNode resolve
ServerDelete ==
    /\ req # <<>> /\ Head(req).kind = "delete"
    /\ LET m == Head(req)
           k == ServerFind(gridData, m.id)
       IN  IF k = 0
           THEN /\ gridData' = gridData
                /\ resp' = Send(resp, Msg("deleteRes", m.id, 0, NoEntry, <<>>, 0, FALSE))
           ELSE /\ gridData' = FilterOutAt(gridData, k)
                /\ resp' = Send(resp, Msg("deleteRes", m.id, 0, gridData[k],
                                          <<>>, 0, TRUE))
    /\ req' = Tail(req)
    /\ UNCHANGED <<serverSub, now, budget, loaded, cache, layers, uiVars, ev>>
    /\ UNCHANGED <<earlierVars, clearTimers>>

\* subscriptions-transport-ws: start / stop of the gridUpdate operation
ServerSubscribe ==
    /\ req # <<>> /\ Head(req).kind \in {"start", "stop"}
    /\ LET m == Head(req)
       IN  serverSub' = IF m.kind = "start" THEN m.epoch
                        ELSE IF serverSub = m.epoch THEN 0 ELSE serverSub
    /\ req' = Tail(req)
    /\ UNCHANGED <<gridData, resp, now, budget, loaded, cache, layers, uiVars, ev>>
    /\ UNCHANGED <<earlierVars, clearTimers>>

\* Subscription.gridUpdate generator: one random node drifts, clamped.
\* (ok records, for observation only, that the client was active when the
\* message was produced.)
ServerPush ==
    /\ serverSub # 0 /\ gridData # <<>> /\ budget > 0
    /\ \E randomIndex \in 1..Len(gridData), d \in Deltas :
          LET entry == Entry(gridData[randomIndex].id,
                             ServerClamp(gridData[randomIndex].voltage + d), now)
          IN  /\ gridData' = [gridData EXCEPT ![randomIndex] = entry]
              /\ resp' = Send(resp, Msg("push", entry.id, 0, entry, <<>>,
                                        serverSub, ~isPaused))
    /\ budget' = budget - 1
    /\ UNCHANGED <<serverSub, req, now, loaded, cache, layers, uiVars, ev>>
    /\ UNCHANGED <<earlierVars, clearTimers>>

----------------------------------------------------------------------------
(* Client: responses and push messages, in arrival order *)

\* useQuery result (initial load or refetch) and the rest of handleRefresh
DeliverQuery ==
    /\ resp # <<>> /\ Head(resp).kind = "queryRes"
    /\ LET m == Head(resp)
       IN  /\ cache' = m.grid
           /\ loaded' = TRUE
           /\ \E effectFirst \in BOOLEAN :
                voltageHistory' =
                  Ordered(effectFirst, voltageHistory,
                    LAMBDA h : OnQueryData(loaded, View(cache, layers),
                                           TRUE, View(m.grid, layers), h),
                    LAMBDA h : IF m.ok THEN RefreshMerge(h, m.grid) ELSE h)
           /\ isRefreshing' = IF m.ok THEN FALSE ELSE isRefreshing
           /\ ev' = Ev(m, Len(voltageHistory), Absent, NoEntry)
    /\ resp' = Tail(resp)
    /\ UNCHANGED <<gridData, serverSub, req, now, budget, layers, alerts,
                   updatedId, timers, isPaused, mutationLoading, subData,
                   subEpoch>>
    /\ UNCHANGED <<earlierVars, clearTimers>>

\* A gridUpdate message of the current subscription: cache write by Apollo,
\* then the subscription effect.  Messages of a stopped operation are dropped.
DeliverPush ==
    /\ resp # <<>> /\ Head(resp).kind = "push"
    /\ LET m == Head(resp)
           e == m.entry
       IN  IF Subscribed(m, subEpoch, isPaused)
           THEN /\ cache' = WriteEntity(loaded, cache, e)
                /\ subData' = e
                /\ alerts' = EffectAlerts(e, isPaused, alerts)
                /\ updatedId' = EffectUpdatedId(e, isPaused, updatedId)
                /\ timers' = EffectTimers(e, isPaused, timers)
                /\ voltageHistory' =
                     EffectHistory(e, isPaused,
                        OnQueryData(loaded, View(cache, layers), loaded,
                                    View(cache', layers), voltageHistory))
                /\ ev' = Ev(m, Len(voltageHistory), alerts[m.id], NoEntry)
           ELSE /\ UNCHANGED <<cache, subData, alerts, updatedId, timers,
                               voltageHistory>>
                /\ ev' = Ev([m EXCEPT !.kind = "pushDropped"], Len(voltageHistory), alerts[m.id], NoEntry)
    /\ resp' = Tail(resp)
    /\ UNCHANGED <<gridData, serverSub, req, now, budget, loaded, layers,
                   isRefreshing, isPaused, mutationLoading, subEpoch>>
    /\ UNCHANGED <<earlierVars, clearTimers>>

\* updateVoltage response: optimistic layer dropped, update callback, .then
DeliverUpdate ==
    /\ resp # <<>> /\ Head(resp).kind = "updateRes"
    /\ LET m == Head(resp)
           e == m.entry
       IN  /\ layers' = Tail(layers)
           /\ IF m.ok
              THEN /\ cache' = updateGridCache(loaded, WriteEntity(loaded, cache, e),
                                               e, "update")
                   /\ updatedId' = e.id
                   /\ timers' = timers + 1
                   /\ alerts' = addAlert(alerts, e.id, AlertFor(e.voltage))
                   /\ \E effectFirst \in BOOLEAN :
                        voltageHistory' =
                          Ordered(effectFirst, voltageHistory,
                            LAMBDA h : OnQueryData(loaded, View(cache, layers),
                                                   loaded, View(cache', layers'), h),
                            LAMBDA h : AppendIfNew(h, e))
              ELSE /\ UNCHANGED <<cache, updatedId, timers, alerts>>
                   /\ voltageHistory' =
                        OnQueryData(loaded, View(cache, layers), loaded,
                                    View(cache, layers'), voltageHistory)
           /\ ev' = Ev(m, Len(voltageHistory), alerts[m.id], Head(layers))
    /\ resp' = Tail(resp)
    /\ UNCHANGED <<gridData, serverSub, req, now, budget, loaded, isRefreshing,
                   isPaused, mutationLoading, subData, subEpoch>>
    /\ UNCHANGED <<earlierVars, clearTimers>>

\* addNode response: update callback, .then / .catch, .finally
DeliverAdd ==
    /\ resp # <<>> /\ Head(resp).kind = "addRes"
    /\ LET m == Head(resp)
           e == m.entry
       IN  /\ IF m.ok
              THEN /\ cache' = updateGridCache(loaded, WriteEntity(loaded, cache, e),
                                               e, "add")
                   /\ alerts' = addAlert(alerts, e.id, NullAlert)
                   /\ \E effectFirst \in BOOLEAN :
                        voltageHistory' =
                          Ordered(effectFirst, voltageHistory,
                            LAMBDA h : OnQueryData(loaded, View(cache, layers),
                                                   loaded, View(cache', layers), h),
                            LAMBDA h : AppendEntry(h, e))
              ELSE /\ alerts' = addAlert(alerts, m.id, Alert("failAdd", 0))
                   /\ UNCHANGED <<cache, voltageHistory>>
           /\ mutationLoading' = Settled(mutationLoading, "add")
           /\ ev' = Ev(m, Len(voltageHistory), alerts[m.id], NoEntry)
    /\ resp' = Tail(resp)
    /\ UNCHANGED <<gridData, serverSub, req, now, budget, loaded, layers,
                   updatedId, timers, isRefreshing, isPaused, subData, subEpoch>>
    /\ UNCHANGED <<earlierVars, clearTimers>>

\* deleteNode response: update callback (cache, history purge, alert removal),
\* then the queryData effect, .then / .catch
DeliverDelete ==
    /\ resp # <<>> /\ Head(resp).kind = "deleteRes"
    /\ LET m == Head(resp)
           e == m.entry
       IN  /\ IF m.ok
              THEN /\ cache' = updateGridCache(loaded, WriteEntity(loaded, cache, e),
                                               e, "delete")
                   /\ alerts' = DeleteAlert(alerts, m.id)
                   /\ voltageHistory' =
                        OnQueryData(loaded, View(cache, layers), loaded,
                                    View(cache', layers),
                                    PurgeId(voltageHistory, m.id))
              ELSE /\ alerts' = addAlert(alerts, m.id, Alert("failDelete", 0))
                   /\ UNCHANGED <<cache, voltageHistory>>
           /\ mutationLoading' = Settled(mutationLoading, "delete")
           /\ ev' = Ev(m, Len(voltageHistory), alerts[m.id], NoEntry)
    /\ resp' = Tail(resp)
    /\ UNCHANGED <<gridData, serverSub, req, now, budget, loaded, layers,
                   updatedId, timers, isRefreshing, isPaused, subData, subEpoch>>
    /\ UNCHANGED <<earlierVars, clearTimers>>

\* setTimeout(() => setUpdatedId(null), 500)
TimerFire ==
    /\ timers > 0
    /\ timers' = timers - 1
    /\ updatedId' = None
    /\ ev' = Ev(Msg("timer", None, 0, NoEntry, <<>>, 0, TRUE), Len(voltageHistory), Absent, NoEntry)
    /\ UNCHANGED <<gridData, serverSub, req, resp, now, budget, loaded, cache,
                   layers, voltageHistory, alerts, isRefreshing, isPaused,
                   mutationLoading, subData, subEpoch>>
    /\ UNCHANGED <<earlierVars, clearTimers>>

----------------------------------------------------------------------------
(* Client: user interface *)

\* GridNode.handleUpdate -> handleUpdateVoltage (optimistic response)
ClickUpdate ==
    /\ loaded /\ budget > 0
    /\ \E i \in Ids(View(cache, layers)), text \in Typed :
          LET input == parseInt(text) IN
          IF ~IsNumber(input)
          THEN /\ ev' = Ev(Msg("clickUpdateNaN", i, input, NoEntry, <<>>, 0, FALSE), Len(voltageHistory), Absent, NoEntry)
               /\ UNCHANGED <<req, layers, voltageHistory>>
          ELSE LET clampedVoltage == Clamp(input)
                   optimistic == Entry(i, clampedVoltage, now)
               IN  /\ req' = Send(req, [Msg("update", i, clampedVoltage, NoEntry,
                                            <<>>, 0, TRUE)
                                        EXCEPT !.asked = input])
                   /\ layers' = Append(layers, optimistic)
                   /\ voltageHistory' =
                        OnQueryData(loaded, View(cache, layers), loaded,
                                    View(cache, layers'), voltageHistory)
                   /\ ev' = Ev(Msg("clickUpdate", i, input, optimistic, <<>>, 0, TRUE), Len(voltageHistory), Absent, NoEntry)
    /\ budget' = budget - 1
    /\ UNCHANGED <<gridData, serverSub, resp, now, loaded, cache, alerts,
                   updatedId, timers, isRefreshing, isPaused, mutationLoading,
                   subData, subEpoch>>
    /\ UNCHANGED <<earlierVars, clearTimers>>

\* ControlPanel.handleAdd -> handleAddNode
ClickAdd ==
    /\ loaded /\ budget > 0 /\ ~mutationLoading.add
    /\ \E i \in AddIds :
          /\ req' = Send(req, Msg("add", i, 0, NoEntry, <<>>, 0, TRUE))
          /\ ev' = Ev(Msg("clickAdd", i, 0, NoEntry, <<>>, 0, TRUE), Len(voltageHistory), Absent, NoEntry)
    /\ mutationLoading' = InFlight(mutationLoading, "add")
    /\ budget' = budget - 1
    /\ UNCHANGED <<gridData, serverSub, resp, now, loaded, cache, layers,
                   voltageHistory, alerts, updatedId, timers, isRefreshing,
                   isPaused, subData, subEpoch>>
    /\ UNCHANGED <<earlierVars, clearTimers>>

\* GridNode.handleDelete -> handleDeleteNode
ClickDelete ==
    /\ loaded /\ budget > 0
    /\ \E i \in Ids(View(cache, layers)) :
          /\ req' = Send(req, Msg("delete", i, 0, NoEntry, <<>>, 0, TRUE))
          /\ ev' = Ev(Msg("clickDelete", i, 0, NoEntry, <<>>, 0, TRUE), Len(voltageHistory), Absent, NoEntry)
    /\ mutationLoading' = InFlight(mutationLoading, "delete")
    /\ budget' = budget - 1
    /\ UNCHANGED <<gridData, serverSub, resp, now, loaded, cache, layers,
                   voltageHistory, alerts, updatedId, timers, isRefreshing,
                   isPaused, subData, subEpoch>>
    /\ UNCHANGED <<earlierVars, clearTimers>>

\* Refresh button (disabled while refreshing) -> handleRefresh
ClickRefresh ==
    /\ loaded /\ budget > 0 /\ ~isRefreshing
    /\ isRefreshing' = TRUE
    /\ req' = Send(req, Msg("query", None, 0, NoEntry, <<>>, 0, TRUE))
    /\ ev' = Ev(Msg("clickRefresh", None, 0, NoEntry, <<>>, 0, TRUE), Len(voltageHistory), Absent, NoEntry)
    /\ budget' = budget - 1
    /\ UNCHANGED <<gridData, serverSub, resp, now, loaded, cache, layers,
                   voltageHistory, alerts, updatedId, timers, isPaused,
                   mutationLoading, subData, subEpoch>>
    /\ UNCHANGED <<earlierVars, clearTimers>>

\* (a wrong updater: the control only ever pauses)
Latch(prev) == TRUE

\* setIsPaused((prev) => !prev)
Toggle(prev) == ~prev

\* Pause / Resume button (disabled while refreshing) -> handleTogglePause;
\* useSubscription({skip: isPaused}) stops or restarts the operation, and the
\* subscription effect runs again because isPaused changed.
TogglePause ==
    /\ loaded /\ budget > 0 /\ ~isRefreshing
    /\ isPaused' = Toggle(isPaused)
    /\ IF ~isPaused
       THEN /\ req' = Send(req, Msg("stop", None, 0, NoEntry, <<>>, subEpoch, TRUE))
            /\ subEpoch' = subEpoch
       ELSE /\ subEpoch' = subEpoch + 1
            /\ req' = Send(req, Msg("start", None, 0, NoEntry, <<>>, subEpoch', TRUE))
    /\ subData' = SkipResult(subData)
    /\ alerts' = EffectAlerts(subData', isPaused', alerts)
    /\ updatedId' = EffectUpdatedId(subData', isPaused', updatedId)
    /\ timers' = EffectTimers(subData', isPaused', timers)
    /\ voltageHistory' = EffectHistory(subData', isPaused', voltageHistory)
    /\ ev' = Ev(Msg(IF ~isPaused THEN "pause" ELSE "resume", None, 0, NoEntry,
                 <<>>, subEpoch', TRUE), Len(voltageHistory), Absent, NoEntry)
    /\ budget' = budget - 1
    /\ UNCHANGED <<gridData, serverSub, resp, now, loaded, cache, layers,
                   isRefreshing, mutationLoading>>
    /\ UNCHANGED <<earlierVars, clearTimers>>

----------------------------------------------------------------------------

Next ==
    \/ Tick
    \/ ServerQuery
    \/ ServerUpdate
    \/ ServerAdd
    \/ ServerDelete
    \/ ServerSubscribe
    \/ ServerPush
    \/ DeliverQuery
    \/ DeliverPush
    \/ DeliverUpdate
    \/ DeliverAdd
    \/ DeliverDelete
    \/ TimerFire
    \/ ClickUpdate
    \/ ClickAdd
    \/ ClickDelete
    \/ ClickRefresh
    \/ TogglePause

Spec == Init /\ [][Next]_vars

----------------------------------------------------------------------------
(* Later starting points: states the dashboard is in after it has run for a
   while.  They are built with the handlers' own operators. *)

\* The grid after the initial load at time t.
LoadedGrid(d, t) == Randomize(InitialGridData, d, t)

\* k push messages, one per tick, round-robin over the nodes, each merged by
\* the queryData effect and the subscription effect.
PastPush(p, j, k) ==
    LET idx == ((j - 1) % Len(p.grid)) + 1
        e == Entry(p.grid[idx].id,
                   ServerClamp(p.grid[idx].voltage
                               + (IF j % 2 = 0 THEN 4 ELSE -5)),
                   j - k - 1)
        g2 == <<>> \o MapReplace(p.grid, e)
    IN  [grid |-> g2, hist |-> EffectHistory(e, FALSE, MergeEffect(g2, p.hist))]

\* Pushes lo..hi of k, in order (split in halves to keep the evaluation
\* shallow).
RECURSIVE PastRun(_, _, _, _)
PastRun(p, lo, hi, k) ==
    IF lo > hi \/ p.grid = <<>> THEN p
    ELSE IF lo = hi THEN PastPush(p, lo, k)
    ELSE PastRun(PastRun(p, lo, (lo + hi) \div 2, k),
                 (lo + hi) \div 2 + 1, hi, k)

Past(k) ==
    PastRun([grid |-> LoadedGrid(4, 0 - k - 1),
             hist |-> MergeEffect(LoadedGrid(4, 0 - k - 1), <<>>)], 1, k, k)

Quiet(serverGrid, grid, hist, as, sub, paused, q, r, n) ==
    /\ gridData = serverGrid
    /\ serverSub = 1
    /\ req = q
    /\ resp = r
    /\ now = 0
    /\ budget = n
    /\ loaded = TRUE
    /\ cache = grid
    /\ layers = <<>>
    /\ voltageHistory = hist
    /\ alerts = as
    /\ updatedId = None
    /\ timers = 0
    /\ isRefreshing = FALSE
    /\ isPaused = paused
    /\ mutationLoading = [add |-> FALSE, delete |-> FALSE]
    /\ subData = sub
    /\ subEpoch = 1
    /\ ev = Ev(Msg("init", None, 0, NoEntry, <<>>, 0, TRUE), Len(hist), Absent,
               NoEntry)

\* After FillPushes - 1 or FillPushes push messages: the History Log is
\* two entries short of the cap, or at it.
FillPushes == 66

PastRuns == [k \in {FillPushes - 1, FillPushes} |-> Past(k)]

InitCap ==
    /\ EarlierIdle
    /\ \E k \in DOMAIN PastRuns :
        LET p == PastRuns[k]
            last == p.grid[((k - 1) % Len(p.grid)) + 1]
        IN  Quiet(p.grid, p.grid, p.hist,
                  [i \in NodeIds |->
                      IF i \in Ids(p.grid)
                      THEN AlertFor(p.grid[FindIndex(p.grid, LAMBDA x : x.id = i)].voltage)
                      ELSE Absent],
                  last, FALSE, <<>>, <<>>, MaxEvents)

SpecCap == InitCap /\ [][Next]_vars

\* Right after the user clicked Pause: the stop message is on its way and
\* the server's generator is still running.
InitPaused ==
    /\ EarlierIdle
    /\ \E d \in Deltas :
        Quiet(LoadedGrid(d, 0), LoadedGrid(d, 0), LoadedGrid(d, 0),
              [i \in NodeIds |-> Absent], NoEntry, TRUE,
              << Msg("stop", None, 0, NoEntry, <<>>, 1, TRUE) >>, <<>>,
              MaxEvents)

SpecPaused == InitPaused /\ [][Next]_vars

\* One push message in flight that carries any voltage the generator can
\* produce: node i drifted from w to ServerClamp(w + d).
ProbeEvents == 1

InitProbe ==
    /\ EarlierIdle
    /\ \E k \in 1..Len(InitialGridData), w \in HARD_MIN..HARD_MAX, d \in Deltas :
        LET i == InitialGridData[k].id
            before == MapReplace(LoadedGrid(4, 0 - 2), Entry(i, w, 0 - 1))
            e == Entry(i, ServerClamp(w + d), 0)
        IN  Quiet(MapReplace(before, e), before,
                  EffectHistory(Entry(i, w, 0 - 1), FALSE,
                                MergeEffect(before, LoadedGrid(4, 0 - 2))),
                  [j \in NodeIds |-> IF j = i THEN AlertFor(w) ELSE Absent],
                  Entry(i, w, 0 - 1), FALSE, <<>>,
                  << Msg("push", i, 0, e, <<>>, 1, TRUE) >>, ProbeEvents)

SpecProbe == InitProbe /\ [][Next]_vars

----------------------------------------------------------------------------
(* The earlier App components are separate programs: they share the clock
   and nothing else with the latest App, which stays idle while they run. *)

LatestIdle(n) ==
    Quiet(LoadedGrid(4, 0), LoadedGrid(4, 0), LoadedGrid(4, 0),
          [i \in NodeIds |-> Absent], NoEntry, FALSE, <<>>, <<>>, n)

\* Readings and failures the earlier Apps are shown.
AlertIds == {"1", "2"}
AlertVoltages == {222, 230, 238}
FailedOps == {"update", "refresh"}

----------------------------------------------------------------------------
(* Mutations only: the grid is loaded, and the user does nothing but add,
   delete and update nodes. *)

MutationEvents == 3

NextMutations ==
    \/ ClickUpdate
    \/ ClickAdd
    \/ ClickDelete
    \/ ServerUpdate
    \/ ServerAdd
    \/ ServerDelete
    \/ DeliverUpdate
    \/ DeliverAdd
    \/ DeliverDelete

InitMutations == LatestIdle(MutationEvents) /\ EarlierIdle

SpecMutations == InitMutations /\ [][NextMutations]_vars

\* The server resolves the operation at the head of the socket, and the
\* client handles the message at the head of the socket.
Serving == ServerUpdate \/ ServerAdd \/ ServerDelete

Delivering == DeliverUpdate \/ DeliverAdd \/ DeliverDelete

SpecMutationsFair ==
    SpecMutations /\ WF_vars(Serving) /\ WF_vars(Delivering)

----------------------------------------------------------------------------
(* Alert list of the intermediate App (src/unnamed/part_005) *)

MaxAlerts == 6

MAX_ALERTS == 5

\* (a wrong slice: keeps the front, so a sixth alert is dropped)
First5(s) == IF Len(s) > MAX_ALERTS THEN SubSeq(s, 1, MAX_ALERTS) ELSE s

\* .slice(-5)
Last5(s) ==
    IF Len(s) > MAX_ALERTS
    THEN SubSeq(s, Len(s) - MAX_ALERTS + 1, Len(s))
    ELSE s

\* setAlerts((prev) => [...prev, message].slice(-5))
addAlertV2(prev, message) == Last5(Append(prev, message))

\* Subscription effect: an out-of-range reading registers an alert.
GridUpdateV2 ==
    /\ registered < MaxAlerts
    /\ \E i \in AlertIds, v \in AlertVoltages :
          IF OutOfSafeRange(v)
          THEN /\ alertsV2' = addAlertV2(alertsV2,
                                         Toast(RangeText(i, v), registered + 1))
               /\ registered' = registered + 1
          ELSE UNCHANGED <<alertsV2, registered>>
    /\ UNCHANGED <<latestVars, clearTimers, session, now, budget, alertsV1, alertTimers, historyV1,
                   storage, mounted>>

\* .catch of a mutation, catch of handleRefresh: the failure is registered.
CatchV2 ==
    /\ registered < MaxAlerts
    /\ \E op \in FailedOps :
          alertsV2' = addAlertV2(alertsV2,
                                 Toast(FailText(op, IF op = "refresh" THEN None
                                                    ELSE "1"),
                                       registered + 1))
    /\ registered' = registered + 1
    /\ UNCHANGED <<latestVars, clearTimers, session, now, budget, alertsV1, alertTimers, historyV1,
                   storage, mounted>>

\* Clear button (rendered while alerts.length > 0) -> clearAlerts
ClearAlertsV2 ==
    /\ alertsV2 # <<>>
    /\ alertsV2' = <<>>
    /\ UNCHANGED <<latestVars, clearTimers, session, now, budget, alertsV1, alertTimers, registered,
                   historyV1, storage, mounted>>

NextV2 ==
    \/ GridUpdateV2
    \/ CatchV2
    \/ ClearAlertsV2

InitV2 == LatestIdle(0) /\ EarlierIdle

SpecV2 == InitV2 /\ [][NextV2]_vars

----------------------------------------------------------------------------
(* Alert toasts and History Log persistence of the first App
   (src/src/App.tsx 67-422).  Time is counted in seconds. *)

MaxClock == 8
MaxEventsV1 == 3

ALERT_TTL == 5
KEPT_ALERTS == 2

\* localStorage item holding the empty string
EmptyItem == [kind |-> "empty", items |-> <<>>]

\* JSON.stringify(voltageHistory): an array of {id, voltage, timestamp}
stringify(h) ==
    [kind |-> "json",
     items |-> [k \in 1..Len(h) |-> <<h[k].id, h[k].voltage, h[k].timestamp>>]]

\* JSON.parse(saved)
parse(saved) ==
    [k \in 1..Len(saved.items) |->
        Entry(saved.items[k][1], saved.items[k][2], saved.items[k][3])]

\* saved ? JSON.parse(saved) : []   (null and "" are falsy)
LoadHistory(saved) == IF saved.kind = "json" THEN parse(saved) ELSE <<>>

\* setVoltageHistory((prev) => [...prev, newEntry].slice(-200))
updateHistory(prev, newEntry) == Last200(Append(prev, newEntry))

\* setAlerts((prev) => [message, ...prev.slice(0, 2)])
addAlertV1(prev, message) ==
    <<message>> \o SubSeq(prev, 1, Min(KEPT_ALERTS, Len(prev)))

\* setTimeout(..., 5000)
ExpiryTimer(message, t) == [toast |-> message, due |-> t + ALERT_TTL]

\* setAlerts((prev) => prev.filter((a) => a !== message))
ExpireAlert(prev, message) ==
    SelectSeq(prev, LAMBDA a : a.text # message.text)

\* useEffect(() => localStorage.setItem(...), [voltageHistory]): setItem
\* throws when the quota is exceeded; nothing catches it, so React unmounts
\* the component tree.
Persisted(h, quotaExceeded) ==
    /\ storage' = IF quotaExceeded THEN storage ELSE stringify(h)
    /\ mounted' = ~quotaExceeded

\* What is on screen after the commit: nothing once the tree is unmounted.
Shown(as, quotaExceeded) == IF quotaExceeded THEN <<>> ELSE as

\* onSubscriptionData (updateHistory) and the subscription effect (addAlert),
\* then the persist effect.
GridUpdateV1 ==
    /\ mounted /\ budget > 0 /\ now + ALERT_TTL <= MaxClock
    /\ \E i \in AlertIds, v \in AlertVoltages, quotaExceeded \in BOOLEAN :
          LET message == Toast(RangeText(i, v), registered + 1)
          IN  /\ historyV1' = updateHistory(historyV1, Entry(i, v, now))
              /\ Persisted(historyV1', quotaExceeded)
              /\ IF OutOfSafeRange(v)
                 THEN /\ alertsV1' = Shown(addAlertV1(alertsV1, message),
                                           quotaExceeded)
                      /\ alertTimers' =
                           Append(alertTimers, ExpiryTimer(message, now))
                      /\ registered' = registered + 1
                 ELSE /\ alertsV1' = Shown(alertsV1, quotaExceeded)
                      /\ UNCHANGED <<alertTimers, registered>>
    /\ budget' = budget - 1
    /\ UNCHANGED <<latestVars, clearTimers, session, now, alertsV2>>

\* .catch of a mutation, catch of handleRefresh: the failure is registered.
CatchV1 ==
    /\ mounted /\ budget > 0 /\ now + ALERT_TTL <= MaxClock
    /\ \E op \in FailedOps :
          LET message == Toast(FailText(op, IF op = "refresh" THEN None
                                            ELSE "1"),
                               registered + 1)
          IN  /\ alertsV1' = addAlertV1(alertsV1, message)
              /\ alertTimers' = Append(alertTimers, ExpiryTimer(message, now))
    /\ registered' = registered + 1
    /\ budget' = budget - 1
    /\ UNCHANGED <<latestVars, clearTimers, session, now, alertsV2, historyV1, storage, mounted>>

\* Clear button: setAlerts([])
ClearV1 ==
    /\ mounted /\ alertsV1 # <<>>
    /\ alertsV1' = <<>>
    /\ UNCHANGED <<latestVars, clearTimers, session, now, budget, alertsV2, alertTimers, registered,
                   historyV1, storage, mounted>>

\* The oldest pending timeout is due: its callback filters the alerts.
ExpireV1 ==
    /\ alertTimers # <<>> /\ Head(alertTimers).due <= now
    /\ alertTimers' = Tail(alertTimers)
    /\ alertsV1' = IF mounted
                   THEN ExpireAlert(alertsV1, Head(alertTimers).toast)
                   ELSE alertsV1
    /\ UNCHANGED <<latestVars, clearTimers, session, now, budget, alertsV2, registered, historyV1,
                   storage, mounted>>

\* A second passes, once every timeout that is due has run.
TickV1 ==
    /\ now < MaxClock
    /\ IF alertTimers = <<>> THEN TRUE ELSE Head(alertTimers).due > now
    /\ now' = now + 1
    /\ UNCHANGED <<latestVars, clearTimers, budget, earlierVars>>

\* The page is loaded again: a new session starts from what is stored, and
\* the persist effect runs on mount.
ReloadV1 ==
    /\ budget > 0
    /\ historyV1' = LoadHistory(storage)
    /\ \E quotaExceeded \in BOOLEAN : Persisted(historyV1', quotaExceeded)
    /\ alertsV1' = <<>>
    /\ alertTimers' = <<>>
    /\ session' = session + 1
    /\ budget' = budget - 1
    /\ UNCHANGED <<latestVars, clearTimers, now, alertsV2, registered>>

NextV1 ==
    \/ GridUpdateV1
    \/ CatchV1
    \/ ClearV1
    \/ ExpireV1
    \/ TickV1
    \/ ReloadV1

\* What an earlier session, or anything else on the origin, left stored.
PriorItems ==
    {NullItem, EmptyItem, stringify(<<>>),
     stringify(<< Entry("1", 230, 0 - 2), Entry("2", 238, 0 - 1) >>)}

\* Just after the first mount of a session.
InitV1 ==
    /\ LatestIdle(MaxEventsV1)
    /\ alertsV2 = <<>>
    /\ alertsV1 = <<>>
    /\ alertTimers = <<>>
    /\ registered = 0
    /\ session = 1
    /\ clearTimers = <<>>
    /\ \E saved \in PriorItems, quotaExceeded \in BOOLEAN :
          /\ historyV1 = LoadHistory(saved)
          /\ storage = IF quotaExceeded THEN saved ELSE stringify(historyV1)
          /\ mounted = ~quotaExceeded

SpecV1 == InitV1 /\ [][NextV1]_vars

\* The browser runs a timeout that is due, and time passes.
SpecV1Fair == SpecV1 /\ WF_vars(ExpireV1) /\ WF_vars(TickV1)

----------------------------------------------------------------------------
(* Failing operations: the promise of a query or of a mutation rejects
   (the link reports an error for the operation instead of a result). *)

\* The operation at the head of the socket fails: nothing reaches the
\* resolvers, and the client is told of the error.
OperationFails ==
    /\ req # <<>> /\ Head(req).kind \in {"query", "update", "add", "delete"}
    /\ LET m == Head(req)
       IN  resp' = Send(resp,
                CASE m.kind = "query"  ->
                       Msg("queryErr", None, 0, NoEntry, <<>>, 0, m.ok)
                  [] m.kind = "update" ->
                       [Msg("updateErr", m.id, m.voltage, NoEntry, <<>>, 0, FALSE)
                        EXCEPT !.asked = m.asked]
                  [] m.kind = "add"    ->
                       Msg("addRes", m.id, 0, NoEntry, <<>>, 0, FALSE)
                  [] OTHER             ->
                       Msg("deleteRes", m.id, 0, NoEntry, <<>>, 0, FALSE))
    /\ req' = Tail(req)
    /\ UNCHANGED <<gridData, serverSub, now, budget, loaded, cache, layers,
                   uiVars, ev>>
    /\ UNCHANGED <<earlierVars, clearTimers>>

\* refetch rejects: catch of handleRefresh (console.error), then finally.
\* (ok carries "refetch": the initial query has no handler.)
DeliverQueryError ==
    /\ resp # <<>> /\ Head(resp).kind = "queryErr"
    /\ LET m == Head(resp)
       IN  /\ isRefreshing' = IF m.ok THEN FALSE ELSE isRefreshing
           /\ ev' = Ev(m, Len(voltageHistory), Absent, NoEntry)
    /\ resp' = Tail(resp)
    /\ UNCHANGED <<gridData, serverSub, req, now, budget, loaded, cache,
                   layers, voltageHistory, alerts, updatedId, timers, isPaused,
                   mutationLoading, subData, subEpoch>>
    /\ UNCHANGED <<earlierVars, clearTimers>>

\* updateVoltage rejects: the optimistic layer is dropped, .catch
DeliverUpdateError ==
    /\ resp # <<>> /\ Head(resp).kind = "updateErr"
    /\ LET m == Head(resp)
       IN  /\ layers' = Tail(layers)
           /\ alerts' = addAlert(alerts, m.id, Alert("failUpdate", 0))
           /\ voltageHistory' =
                OnQueryData(loaded, View(cache, layers), loaded,
                            View(cache, layers'), voltageHistory)
           /\ ev' = Ev(m, Len(voltageHistory), alerts[m.id], Head(layers))
    /\ resp' = Tail(resp)
    /\ UNCHANGED <<gridData, serverSub, req, now, budget, loaded, cache,
                   updatedId, timers, isRefreshing, isPaused, mutationLoading,
                   subData, subEpoch>>
    /\ UNCHANGED <<earlierVars, clearTimers>>

NextFailing ==
    \/ Next
    \/ OperationFails
    \/ DeliverQueryError
    \/ DeliverUpdateError

SpecFailing == Init /\ [][NextFailing]_vars

----------------------------------------------------------------------------
(* The highlight of the latest App in real time (src/src/App.tsx 499-500 and
   546-547).  Time is counted in milliseconds; only updatedId and its
   timeouts are followed. *)

MaxClockMs == 1500
HighlightEvents == 3

HIGHLIGHT_MS == 500
\* The clock advances by half a highlight window.
CLOCK_STEP_MS == HIGHLIGHT_MS \div 2

\* setTimeout(() => setUpdatedId(null), 500), started for node i at time t
\* (the callback does not know i: it is kept for observation only)
ClearTimer(i, t) == [id |-> i, due |-> t + HIGHLIGHT_MS]

\* What the rest of the App holds while the highlight is followed.
highlightFrame ==
    <<gridData, serverSub, req, resp, loaded, cache, layers, voltageHistory,
      alerts, isRefreshing, isPaused, mutationLoading, subData, subEpoch, ev,
      earlierVars>>

\* setTimeout adds one more pending timeout
Started(pending, timer) == Append(pending, timer)

\* Subscription effect: setUpdatedId(id); setTimeout(..., 500)
HighlightPush ==
    /\ budget > 0 /\ now + HIGHLIGHT_MS <= MaxClockMs
    /\ \E i \in Ids(cache) :
          /\ updatedId' = i
          /\ clearTimers' = Started(clearTimers, ClearTimer(i, now))
    /\ timers' = Len(clearTimers')
    /\ budget' = budget - 1
    /\ UNCHANGED <<highlightFrame, now>>

\* updateVoltage .then: setUpdatedId(id); setTimeout(..., 500)
HighlightUpdate ==
    /\ budget > 0 /\ now + HIGHLIGHT_MS <= MaxClockMs
    /\ \E i \in Ids(cache) :
          /\ updatedId' = i
          /\ clearTimers' = Started(clearTimers, ClearTimer(i, now))
    /\ timers' = Len(clearTimers')
    /\ budget' = budget - 1
    /\ UNCHANGED <<highlightFrame, now>>

\* The oldest pending timeout is due: setUpdatedId(null)
HighlightClear ==
    /\ clearTimers # <<>> /\ Head(clearTimers).due <= now
    /\ updatedId' = None
    /\ clearTimers' = Tail(clearTimers)
    /\ timers' = Len(clearTimers')
    /\ UNCHANGED <<highlightFrame, now, budget>>

\* Time passes, once every timeout that is due has run.
HighlightTick ==
    /\ now < MaxClockMs
    /\ IF clearTimers = <<>> THEN TRUE ELSE Head(clearTimers).due > now
    /\ now' = now + CLOCK_STEP_MS
    /\ UNCHANGED <<highlightFrame, budget, updatedId, timers, clearTimers>>

NextHighlight ==
    \/ HighlightPush
    \/ HighlightUpdate
    \/ HighlightClear
    \/ HighlightTick

InitHighlight == LatestIdle(HighlightEvents) /\ EarlierIdle

SpecHighlight == InitHighlight /\ [][NextHighlight]_vars

\* The browser runs a timeout that is due, and time passes.
SpecHighlightFair ==
    SpecHighlight /\ WF_vars(HighlightClear) /\ WF_vars(HighlightTick)

----------------------------------------------------------------------------
(* Step recognisers: which handler a step belongs to *)

Delivers(k) == resp # <<>> /\ Head(resp).kind = k /\ resp' = Tail(resp)

Sends(k) == Len(req') = Len(req) + 1 /\ req'[Len(req')].kind = k

Serves(k) == req # <<>> /\ Head(req).kind = k /\ req' = Tail(req)

\* The entry the grid g shows for node i (NoEntry if it has none).
EntryOf(g, i) ==
    IF i \in Ids(g) THEN g[CHOOSE k \in 1..Len(g) : g[k].id = i] ELSE NoEntry

SameKey(a, b) ==
    a.id = b.id /\ a.timestamp = b.timestamp /\ a.voltage = b.voltage

Count(s, P(_)) == Cardinality({k \in 1..Len(s) : P(s[k])})

----------------------------------------------------------------------------
(* C1: the History Log never holds two entries with the same
   (id, timestamp, voltage) key. *)
C1_NoDuplicateKeys ==
    \A a, b \in 1..Len(voltageHistory) :
        a # b => ~SameKey(voltageHistory[a], voltageHistory[b])

----------------------------------------------------------------------------
\* The entries one step appends: the whole grid whenever the grid changed,
\* and at most one entry more.
AppendedMin ==
    IF View(cache', layers') # View(cache, layers)
    THEN Len(View(cache', layers')) ELSE 0

AppendedMax == Len(View(cache', layers')) + 1

\* The history is only appended to in this step: no id left the grid and the
\* step is not the replace-in-place of handleRefresh.
AppendOnly ==
    /\ loaded
    /\ Ids(voltageHistory) \subseteq Ids(View(cache', layers'))
    /\ ~(Delivers("queryRes") /\ Head(resp).ok)

(* C2: the History Log never holds more than 200 entries, and a step that
   appends past 200 drops exactly the entries at the front: what is kept of
   the old log is its tail, in the same order, at the front of the new log. *)
C2_CapOldestFirst ==
    /\ [](Len(voltageHistory) <= 200)
    /\ [][AppendOnly =>
            \E n \in AppendedMin..AppendedMax :
                LET total == Len(voltageHistory) + n
                    d == IF total > 200 THEN total - 200 ELSE 0
                IN  /\ Len(voltageHistory') = total - d
                    /\ d <= Len(voltageHistory)
                    /\ SubSeq(voltageHistory', 1, Len(voltageHistory) - d)
                         = SubSeq(voltageHistory, d + 1, Len(voltageHistory))
         ]_vars

\* A push message was merged into a log of 198 entries: one entry was
\* evicted.
C2_Evicted ==
    /\ ev.msg.kind = "push"
    /\ ev.histLen = MAX_HISTORY - 2
    /\ Len(voltageHistory) = MAX_HISTORY

----------------------------------------------------------------------------
\* max(220, min(239, v)), written out.
Expected(v) == IF v < 220 THEN 220 ELSE IF v > 239 THEN 239 ELSE v

(* C4: for every value v the user asks for, the value sent to the server,
   the optimistic value shown for the node, the value the server stores and
   the confirmed value written to the store all equal max(220, min(239, v)). *)
C4_Clamping ==
    [][ /\ Sends("update") =>
             LET m == req'[Len(req')]
             IN  /\ m.voltage = Expected(m.asked)
                 /\ layers'[Len(layers')].id = m.id
                 /\ layers'[Len(layers')].voltage = Expected(m.asked)
                 /\ EntryOf(View(cache', layers'), m.id).voltage
                      = Expected(m.asked)
        /\ (Serves("update") /\ Head(req).id \in Ids(gridData)) =>
             EntryOf(gridData', Head(req).id).voltage = Expected(Head(req).asked)
        /\ (Delivers("updateRes") /\ Head(resp).ok) =>
             /\ Head(resp).entry.voltage = Expected(Head(resp).asked)
             /\ Head(resp).id \in Ids(cache) =>
                  EntryOf(cache', Head(resp).id).voltage
                    = Expected(Head(resp).asked)
      ]_vars

\* The user asked for 300 V and the confirmed 239 V is in the store.
C4_Clamped ==
    /\ ev.msg.kind = "updateRes" /\ ev.msg.ok
    /\ ev.msg.asked = 300
    /\ EntryOf(cache, ev.msg.id).voltage = 239
    /\ layers = <<>>

----------------------------------------------------------------------------
(* C8: the step that confirms deleteNode(id) removes the entity, every
   History Log entry of id and the alert entry of id together; afterwards the
   log holds no entry of a node the store does not have, and such a node has
   no alert left over from its readings. *)
C8_DeleteAtomic ==
    /\ [](loaded =>
            /\ Ids(voltageHistory) \subseteq Ids(cache)
            /\ \A i \in NodeIds \ Ids(cache) :
                    alerts[i].kind \notin {"range", "null"})
    /\ [][(Delivers("deleteRes") /\ Head(resp).ok) =>
            LET i == Head(resp).id
            IN  /\ i \notin Ids(cache')
                /\ i \notin Ids(voltageHistory')
                /\ alerts'[i] = Absent
         ]_vars

\* A node that had history entries and an alert entry has just been deleted.
C8_Deleted ==
    /\ ev.msg.kind = "deleteRes" /\ ev.msg.ok
    /\ ev.alert # Absent
    /\ ev.histLen > Len(voltageHistory)
    /\ ev.msg.id \notin Ids(cache)
    /\ alerts[ev.msg.id] = Absent

----------------------------------------------------------------------------
\* A confirmed updateVoltage response for a node the store has.
Confirms ==
    /\ Delivers("updateRes") /\ Head(resp).ok
    /\ loaded /\ Head(resp).id \in Ids(cache)

(* C6, as stated: once the confirmed response for X has arrived, the value
   the store shows for X is the confirmed one. *)
C6_ConfirmedIsCurrent ==
    [][Confirms =>
         EntryOf(View(cache', layers'), Head(resp).id) = Head(resp).entry
      ]_vars

(* C6, amended: once the confirmed response for X has arrived, the cached
   entry of X is the confirmed one whatever the timestamps, and it is the
   value shown unless a later update of X is still awaiting its response, in
   which case that update's optimistic value is shown. *)
C6_ConfirmedUnlessPending ==
    [][Confirms =>
         LET i == Head(resp).id
             pending == SelectSeq(layers', LAMBDA o : o.id = i)
         IN  /\ EntryOf(cache', i) = Head(resp).entry
             /\ EntryOf(View(cache', layers'), i)
                  = IF pending = <<>> THEN Head(resp).entry
                    ELSE pending[Len(pending)]
      ]_vars

\* The confirmed entry, stamped later than the optimistic one, is what the
\* store shows.
C6_Confirmed ==
    /\ ev.msg.kind = "updateRes" /\ ev.msg.ok
    /\ ev.layer.id = ev.msg.id
    /\ ev.layer.timestamp < ev.msg.entry.timestamp
    /\ layers = <<>>
    /\ EntryOf(View(cache, layers), ev.msg.id) = ev.msg.entry

----------------------------------------------------------------------------
\* The observations a message delivers to the client.
Observations(m) ==
    IF m.kind = "queryRes" THEN Range(m.grid)
    ELSE IF m.kind \in {"push", "updateRes", "addRes"} /\ m.entry # NoEntry
         THEN {m.entry}
         ELSE {}

(* C3: when a message delivers an observation the store already holds (same
   id, timestamp and voltage), the store still holds it and the History Log
   has as many entries of that key as before. *)
C3_RedeliveryAbsorbed ==
    [][(resp # <<>> /\ resp' = Tail(resp)) =>
         \A e \in Observations(Head(resp)) :
             e \in Range(cache) =>
                 /\ e \in Range(cache')
                 /\ Count(voltageHistory', LAMBDA x : SameKey(x, e))
                      = Count(voltageHistory, LAMBDA x : SameKey(x, e))
      ]_vars

----------------------------------------------------------------------------
\* A gridUpdate message the client merges.
Merges ==
    /\ Delivers("push") /\ loaded
    /\ Subscribed(Head(resp), subEpoch, isPaused)

(* C5: every voltage in the store and in the History Log lies in
   [220, 239]; a merged push message is stored within that range, sets the
   node's alert when it is outside the safe range, and adds exactly one
   History Log entry. *)
C5_PushIngestion ==
    /\ [](/\ \A k \in 1..Len(cache) :
                cache[k].voltage >= 220 /\ cache[k].voltage <= 239
          /\ \A k \in 1..Len(voltageHistory) :
                voltageHistory[k].voltage >= 220
                /\ voltageHistory[k].voltage <= 239)
    /\ [][Merges =>
            LET e == Head(resp).entry
            IN  /\ e.id \in Ids(cache) =>
                     EntryOf(cache', e.id).voltage = Expected(e.voltage)
                /\ (e.voltage < 223 \/ e.voltage > 237) =>
                     alerts'[e.id].kind = "range"
                /\ Len(voltageHistory') = Len(voltageHistory) + 1
         ]_vars

----------------------------------------------------------------------------
(* C10: submitting an update adds the optimistic observation to the History
   Log as one new entry, and its confirmed response adds one more. *)
C10_TwoEntriesPerUpdate ==
    [][ /\ Sends("update") =>
             /\ Len(voltageHistory') = Len(voltageHistory) + 1
             /\ voltageHistory'[Len(voltageHistory')] = layers'[Len(layers')]
        /\ Confirms =>
             /\ Len(voltageHistory') = Len(voltageHistory) + 1
             /\ voltageHistory'[Len(voltageHistory')] = Head(resp).entry
      ]_vars

----------------------------------------------------------------------------
(* C7: a push message that arrives while the client is paused, or that the
   server produced while the client was paused, changes neither the store,
   nor the History Log, nor the alerts, whenever it arrives; pausing and
   resuming themselves merge nothing. *)
C7_PauseFidelity ==
    [][ /\ (Delivers("push") /\ (isPaused \/ ~Head(resp).ok)) =>
             UNCHANGED <<cache, voltageHistory, alerts>>
        /\ isPaused' # isPaused =>
             UNCHANGED <<cache, voltageHistory, alerts>>
      ]_vars

\* After the resume, a message produced during the pause arrived and was
\* dropped.
C7_MissedNotReplayed ==
    /\ ev.msg.kind = "pushDropped"
    /\ ~ev.msg.ok
    /\ ~isPaused
    /\ ev.msg.epoch < subEpoch

----------------------------------------------------------------------------
(* C9: whenever a handler evaluates a reading (a merged push message or a
   confirmed update), the node's alert is raised exactly when the value is
   below 223 or above 237, whatever the node and whatever alert it had. *)
C9_AlertThresholds ==
    (ev.msg.kind = "push" \/ (ev.msg.kind = "updateRes" /\ ev.msg.ok)) =>
        LET v == ev.msg.entry.voltage
        IN  /\ (alerts[ev.msg.id].kind = "range") <=> (v < 223 \/ v > 237)
            /\ (alerts[ev.msg.id].kind = "null") <=> (v >= 223 /\ v <= 237)
            /\ alerts[ev.msg.id].kind = "range" => alerts[ev.msg.id].voltage = v

\* 238 V raised an alert on a node that had none.
C9_JustAbove ==
    /\ ev.msg.kind = "push"
    /\ ev.msg.entry.voltage = 238
    /\ ev.alert = NullAlert
    /\ alerts[ev.msg.id] = Alert("range", 238)

----------------------------------------------------------------------------
\* The step is a click on Update whose field did not parse to a number.
ClicksUpdateOnNaN ==
    /\ budget' = budget - 1 /\ resp' = resp
    /\ ev'.msg.kind \in {"clickUpdate", "clickUpdateNaN"}
    /\ ev'.msg.voltage = NaN

(* C11: a click on Update while the node's voltage field is empty or not a
   number sends no updateVoltage request and changes neither the store, nor
   the optimistic layers, nor the History Log, nor the alerts. *)
C11_EmptyInputSubmitsNothing ==
    [][ClicksUpdateOnNaN =>
          UNCHANGED <<req, cache, layers, voltageHistory, alerts, updatedId,
                      timers, gridData>>
      ]_vars

\* Update was clicked on an empty or non-numeric field and no request is
\* under way.
C11_ClickedEmpty ==
    /\ ev.msg.kind = "clickUpdateNaN"
    /\ ev.msg.id \in Ids(cache)
    /\ req = <<>> /\ layers = <<>>

----------------------------------------------------------------------------
\* The alert of the list s that was registered first.
Oldest(s) == CHOOSE a \in Range(s) : \A b \in Range(s) : a.reg <= b.reg

\* A step that registers an alert while five are visible drops the oldest of
\* them and shows the new one.
EvictsOldest ==
    [][(registered' = registered + 1 /\ Len(alertsV2) = 5) =>
          /\ Len(alertsV2') = 5
          /\ Oldest(alertsV2) \notin Range(alertsV2')
          /\ Range(alertsV2) \ {Oldest(alertsV2)} \subseteq Range(alertsV2')
          /\ \E a \in Range(alertsV2') : a.reg = registered'
      ]_vars

(* C12, as stated: the visible alert list never holds more than 5 alerts,
   lists them most recent first, and registering an alert while 5 are
   visible evicts the oldest visible one. *)
C12_CapMostRecentFirst ==
    /\ [](Len(alertsV2) <= 5)
    /\ [](\A a, b \in 1..Len(alertsV2) :
             a < b => alertsV2[a].reg > alertsV2[b].reg)
    /\ EvictsOldest

(* C12, amended: the visible alert list never holds more than 5 alerts,
   lists them in registration order with the most recent last, and
   registering an alert while 5 are visible evicts the oldest visible one
   (the first of the list). *)
C12_CapOldestFirst ==
    /\ [](Len(alertsV2) <= 5)
    /\ [](\A a, b \in 1..Len(alertsV2) :
             a < b => alertsV2[a].reg < alertsV2[b].reg)
    /\ EvictsOldest

\* Six alerts were registered without a Clear: the first one is gone and the
\* sixth is the last of the list.
C12_SixthEvictsFirst ==
    /\ Len(alertsV2) = 5
    /\ alertsV2[1].reg = 2
    /\ alertsV2[5].reg = 6

----------------------------------------------------------------------------
\* A new session starts in this step.
Reloads == session' = session + 1

\* The History Log a blob stands for: empty when the blob is missing or
\* empty.
Restored(blob) ==
    IF blob.kind \in {"null", "empty"} THEN <<>>
    ELSE [k \in 1..Len(blob.items) |->
            [id |-> blob.items[k][1], voltage |-> blob.items[k][2],
             timestamp |-> blob.items[k][3]]]

\* While the App runs, the stored blob is the current History Log.
C13_SavedAfterEveryChange == mounted => Restored(storage) = historyV1

\* A new session starts from the stored blob.
C13_ReloadedAtStartup ==
    [][Reloads => historyV1' = Restored(storage)]_vars

(* C13: the History Log is saved under the voltageHistory key after every
   change, a new session starts from the last saved blob (empty when the
   blob is missing or empty), and a failed save only skips that save: the
   App keeps running. *)
C13_PersistedAndReloaded ==
    /\ [](mounted => Restored(storage) = historyV1)
    /\ [][Reloads => historyV1' = Restored(storage)]_vars
    /\ [][mounted => mounted']_vars

----------------------------------------------------------------------------
\* Node i is not in the store: it was deleted, or never existed.
Gone(i) == loaded /\ i \notin Ids(cache)

(* C14: once a node is deleted, a push message, an update response or a
   snapshot that arrives afterwards adds no entity, no History Log entry and
   no alert for its id. *)
C14_LateArrivalsAreNoOps ==
    [][\A i \in NodeIds :
          (/\ Gone(i)
           /\ Delivers("push") \/ Delivers("updateRes") \/ Delivers("queryRes"))
          => /\ i \notin Ids(cache')
             /\ i \notin Ids(voltageHistory')
             /\ alerts'[i] = alerts[i]
      ]_vars

\* The response of an update submitted just after the delete arrived once
\* the node was gone, and left no trace of it.
C14_LateUpdateIgnored ==
    /\ ev.msg.kind = "updateRes"
    /\ loaded /\ ev.msg.id \notin Ids(cache)
    /\ ev.msg.id \notin Ids(voltageHistory)
    /\ alerts[ev.msg.id] = Absent

----------------------------------------------------------------------------
\* Node i has an update awaiting its response.
Pending(i) == \E k \in 1..Len(layers) : layers[k].id = i

\* The entry the grid g holds for node i is at least as recent as every
\* observation of i recorded in the History Log.
HeldIsNewest(g, i) ==
    \A k \in 1..Len(voltageHistory) :
        voltageHistory[k].id = i =>
            EntryOf(g, i).timestamp >= voltageHistory[k].timestamp

(* C15, as stated: for each node, the observation the store holds is at
   least as recent as every observation merged for that node so far. *)
C15_HeldIsNewest ==
    loaded =>
        \A i \in Ids(View(cache, layers)) :
            HeldIsNewest(View(cache, layers), i)

(* C15, amended: a merged push message replaces the cached observation of
   its node whatever the timestamps; for a node with no update awaiting its
   response the store holds that cached observation, which is at least as
   recent as every observation merged for the node so far; for a node with an
   update awaiting its response the store holds the optimistic observation
   of the latest such update, even when a newer push message or snapshot has
   been merged meanwhile. *)
C15_NewestUnlessPending ==
    /\ [](loaded =>
            \A i \in Ids(cache) :
                IF Pending(i)
                THEN LET mine == SelectSeq(layers, LAMBDA o : o.id = i)
                     IN  EntryOf(View(cache, layers), i) = mine[Len(mine)]
                ELSE /\ EntryOf(View(cache, layers), i) = EntryOf(cache, i)
                     /\ HeldIsNewest(View(cache, layers), i))
    /\ [][(Merges /\ Head(resp).id \in Ids(cache)) =>
             EntryOf(cache', Head(resp).id) = Head(resp).entry
         ]_vars

\* A push message newer than the optimistic observation was merged while the
\* update was awaiting its response: the store still holds the optimistic
\* observation.
C15_NewerPushUnderOptimistic ==
    /\ ev.msg.kind = "push"
    /\ Pending(ev.msg.id)
    /\ EntryOf(cache, ev.msg.id) = ev.msg.entry
    /\ EntryOf(View(cache, layers), ev.msg.id).timestamp
         < ev.msg.entry.timestamp

----------------------------------------------------------------------------
(* C16: a node has an alert exactly when the value the store holds for it
   is below 223 or above 237. *)
C16_AlertIffOutOfRange ==
    loaded =>
        \A i \in Ids(View(cache, layers)) :
            (alerts[i].kind \notin {"absent", "null"})
              <=> (\/ EntryOf(View(cache, layers), i).voltage < 223
                   \/ EntryOf(View(cache, layers), i).voltage > 237)

----------------------------------------------------------------------------
\* The alert put up by the n-th addAlert call is on screen.
Visible(n) == \E k \in 1..Len(alertsV1) : alertsV1[k].reg = n

\* The oldest pending timeout runs in this step.
Expires ==
    /\ alertTimers # <<>> /\ alertTimers' = Tail(alertTimers)
    /\ session' = session

\* Every alert on screen is eventually off screen, and while it is on screen
\* its own timeout is still pending and not overdue.
C17_EveryAlertGoes ==
    /\ \A n \in 1..MaxEventsV1 : Visible(n) ~> ~Visible(n)
    /\ [](\A n \in 1..MaxEventsV1 :
             Visible(n) =>
                 \E k \in 1..Len(alertTimers) :
                     /\ alertTimers[k].toast.reg = n
                     /\ alertTimers[k].due >= now)

(* C17: every registered alert is eventually removed, by its own expiry 5 s
   after its registration at the latest, whether or not anybody clears it;
   and an expiry that runs for an alert no longer on screen (evicted or
   cleared) changes nothing. *)
C17_ExpiryRemovesItsAlert ==
    /\ \A n \in 1..MaxEventsV1 : Visible(n) ~> ~Visible(n)
    /\ [](\A n \in 1..MaxEventsV1 :
             Visible(n) =>
                 \E k \in 1..Len(alertTimers) :
                     /\ alertTimers[k].toast.reg = n
                     /\ alertTimers[k].due >= now)
    /\ [][(Expires /\ ~Visible(Head(alertTimers).toast.reg)) =>
             alertsV1' = alertsV1
         ]_vars

----------------------------------------------------------------------------
\* The step is a click on the Pause / Resume button.
ClicksPause ==
    /\ budget' = budget - 1 /\ resp' = resp
    /\ ev'.msg.kind \in {"pause", "resume"}

\* The subscription is left alone: same operation, no start or stop sent.
SubscriptionUnchanged ==
    /\ subEpoch' = subEpoch
    /\ ~Sends("start") /\ ~Sends("stop")

\* Two states, Active first; the control pauses when Active and resumes when
\* Paused; nothing else touches the pause state or the subscription.
PauseMachine ==
    /\ ~isPaused
    /\ [](isPaused \in BOOLEAN)
    /\ [][(ClicksPause /\ ~isPaused) =>
             /\ isPaused' /\ Sends("stop") /\ subEpoch' = subEpoch]_vars
    /\ [][(ClicksPause /\ isPaused) =>
             /\ ~isPaused' /\ Sends("start") /\ subEpoch' = subEpoch + 1]_vars
    /\ [][~ClicksPause => (isPaused' = isPaused /\ SubscriptionUnchanged)]_vars

(* C18, as stated: two states, Active first; pause() moves Active to Paused
   and resume() moves Paused to Active; pause() while Paused and resume()
   while Active leave the state and the subscription unchanged.  The App has
   one control for both, handleTogglePause: a call made while already Paused
   is a use of that control in the Paused state. *)
C18_PauseResumeIdempotent ==
    /\ PauseMachine
    /\ [][(ClicksPause /\ isPaused) =>
             (isPaused' /\ SubscriptionUnchanged)]_vars
    /\ [][(ClicksPause /\ ~isPaused) =>
             (~isPaused' /\ SubscriptionUnchanged)]_vars

(* C18, amended: two states, Active first; the one pause control is a
   toggle: used while Active it pauses and stops the subscription, used
   while Paused it resumes and starts a new subscription; it never leaves the
   state unchanged, and no other step changes the pause state or the
   subscription. *)
C18_PauseIsAToggle ==
    /\ PauseMachine
    /\ [][ClicksPause => isPaused' # isPaused]_vars

\* The control was used twice: paused, then active again on a new
\* subscription.
C18_PausedThenResumed ==
    /\ ev.msg.kind = "resume"
    /\ ~isPaused
    /\ subEpoch = 2

----------------------------------------------------------------------------
\* What the queryData effect leaves of the History Log h in this step.
Merged(h) ==
    IF loaded' /\ (~loaded \/ View(cache', layers') # View(cache, layers))
    THEN MergeEffect(View(cache', layers'), h)
    ELSE h

\* The step submits a mutation or a refresh, or handles the response of one.
MutatesOrRefreshes ==
    \/ Sends("update") \/ Sends("add") \/ Sends("delete") \/ Sends("query")
    \/ Delivers("updateRes") \/ Delivers("addRes")
    \/ Delivers("deleteRes") \/ Delivers("queryRes")

\* What each of these steps does to the store, the History Log and the
\* alerts; the pause state is not part of it.
SubmitOutcome ==
    /\ Sends("update") =>
         LET m == req'[Len(req')]
         IN  /\ layers' = Append(layers, Entry(m.id, Expected(m.asked), now))
             /\ voltageHistory' = Merged(voltageHistory)
             /\ UNCHANGED <<cache, alerts>>
    /\ (Sends("add") \/ Sends("delete") \/ Sends("query")) =>
         UNCHANGED <<cache, layers, voltageHistory, alerts>>

ResponseOutcome ==
    LET m == Head(resp)
        e == m.entry
    IN  /\ Delivers("queryRes") =>
             /\ cache' = m.grid
             /\ UNCHANGED <<layers, alerts>>
             /\ voltageHistory' \in
                  IF m.ok
                  THEN {RefreshMerge(Merged(voltageHistory), m.grid),
                        Merged(RefreshMerge(voltageHistory, m.grid))}
                  ELSE {Merged(voltageHistory)}
        /\ (Delivers("updateRes") /\ m.ok) =>
             /\ cache' = [k \in 1..Len(cache) |->
                             IF cache[k].id = e.id THEN e ELSE cache[k]]
             /\ layers' = Tail(layers)
             /\ alerts' = [alerts EXCEPT ![e.id] =
                              IF e.voltage < 223 \/ e.voltage > 237
                              THEN Alert("range", e.voltage) ELSE NullAlert]
             /\ voltageHistory' \in
                  {AppendIfNew(Merged(voltageHistory), e),
                   Merged(AppendIfNew(voltageHistory, e))}
        /\ (Delivers("updateRes") /\ ~m.ok) =>
             /\ layers' = Tail(layers)
             /\ voltageHistory' = Merged(voltageHistory)
             /\ UNCHANGED <<cache, alerts>>
        /\ (Delivers("addRes") /\ m.ok) =>
             /\ cache' = Append(cache, e)
             /\ alerts' = [alerts EXCEPT ![e.id] = NullAlert]
             /\ voltageHistory' \in
                  {Last200(Append(Merged(voltageHistory), e)),
                   Merged(Last200(Append(voltageHistory, e)))}
             /\ UNCHANGED layers
        /\ (Delivers("addRes") /\ ~m.ok) =>
             /\ alerts' = [alerts EXCEPT ![m.id] = Alert("failAdd", 0)]
             /\ UNCHANGED <<cache, layers, voltageHistory>>
        /\ (Delivers("deleteRes") /\ m.ok) =>
             /\ cache' = SelectSeq(cache, LAMBDA x : x.id # m.id)
             /\ alerts' = [alerts EXCEPT ![m.id] = Absent]
             /\ voltageHistory' =
                  Merged(SelectSeq(voltageHistory, LAMBDA x : x.id # m.id))
             /\ UNCHANGED layers
        /\ (Delivers("deleteRes") /\ ~m.ok) =>
             /\ alerts' = [alerts EXCEPT ![m.id] = Alert("failDelete", 0)]
             /\ UNCHANGED <<cache, layers, voltageHistory>>

(* C19: a refresh or an update, add or delete mutation, and the handling of
   its response, change the store, the History Log and the alerts in the
   same way whether the client is paused or active, and none of them changes
   the pause state or the subscription. *)
C19_PauseGatesOnlyPush ==
    [][(loaded /\ MutatesOrRefreshes) =>
          /\ SubmitOutcome
          /\ ResponseOutcome
          /\ isPaused' = isPaused
          /\ SubscriptionUnchanged
      ]_vars

\* While paused, an update was submitted and its confirmed response merged:
\* the store holds the confirmed entry and the node's alert was evaluated.
C19_UpdatedWhilePaused ==
    /\ isPaused
    /\ ev.msg.kind = "updateRes" /\ ev.msg.ok
    /\ EntryOf(cache, ev.msg.id) = ev.msg.entry
    /\ alerts[ev.msg.id] # Absent
    /\ Len(voltageHistory) > ev.histLen

----------------------------------------------------------------------------
(* C20: submitting addNode(id) changes neither the store nor the History
   Log; its confirmed response inserts the new entity and exactly one History
   Log entry, the entity's first observation; its failure changes neither
   the store nor the History Log and raises an alert about the failure. *)
C20_AddNotOptimistic ==
    [][ /\ Sends("add") => UNCHANGED <<cache, layers, voltageHistory>>
        /\ (Delivers("addRes") /\ Head(resp).ok /\ loaded) =>
             LET e == Head(resp).entry
             IN  /\ cache' = Append(cache, e)
                 /\ Len(voltageHistory') = Len(voltageHistory) + 1
                 /\ voltageHistory'[Len(voltageHistory')] = e
                 /\ Count(voltageHistory', LAMBDA x : x.id = e.id) = 1
        /\ (Delivers("addRes") /\ ~Head(resp).ok) =>
             /\ UNCHANGED <<cache, layers, voltageHistory>>
             /\ alerts'[Head(resp).id] = Alert("failAdd", 0)
      ]_vars

\* The parts of C20 that do not count History Log entries.
C20_StoreAndFailure ==
    [][ /\ Sends("add") => UNCHANGED <<cache, layers, voltageHistory>>
        /\ (Delivers("addRes") /\ Head(resp).ok /\ loaded) =>
             /\ cache' = Append(cache, Head(resp).entry)
             /\ Head(resp).entry \in Range(voltageHistory')
        /\ (Delivers("addRes") /\ ~Head(resp).ok) =>
             /\ UNCHANGED <<cache, layers, voltageHistory>>
             /\ alerts'[Head(resp).id] = Alert("failAdd", 0)
      ]_vars

----------------------------------------------------------------------------
\* The response at the head of the socket rejects an update: the server did
\* not know the node (null result), or the operation failed.
RejectsUpdate ==
    \/ Delivers("updateErr")
    \/ Delivers("updateRes") /\ ~Head(resp).ok

(* C21: when an update is rejected, an alert describing the failure is set
   for its node, and the store keeps showing the optimistic value of that
   update (no rollback). *)
C21_RejectedUpdateKept ==
    [][RejectsUpdate =>
          /\ alerts'[Head(resp).id] = Alert("failUpdate", 0)
          /\ Head(resp).id \in Ids(cache) =>
                EntryOf(View(cache', layers'), Head(resp).id) = Head(layers)
      ]_vars

\* What the code does with a rejected update: a failed operation sets the
\* alert, a null result sets none, and in both cases the optimistic value is
\* gone from the store unless a later update of the node is still pending.
C21_RolledBack ==
    [][RejectsUpdate =>
          /\ alerts'[Head(resp).id] =
                IF Head(resp).kind = "updateErr"
                THEN Alert("failUpdate", 0) ELSE alerts[Head(resp).id]
          /\ layers' = Tail(layers) /\ cache' = cache
      ]_vars

----------------------------------------------------------------------------
\* The step leaves the flag of one kind of mutation as it was.
FlagUnchanged(kind) == mutationLoading'[kind] = mutationLoading[kind]

(* C22: submitting an add sets the adding flag and submitting a delete sets
   the deleting flag; the response of an add, confirmed or failed, resets the
   adding flag, and likewise for a delete; no other step changes either flag;
   and a flag that is set is eventually reset. *)
C22_FlagsFollowRequests ==
    /\ [][ /\ Sends("add") => mutationLoading'.add
           /\ Sends("delete") => mutationLoading'.delete
           /\ Delivers("addRes") => ~mutationLoading'.add
           /\ Delivers("deleteRes") => ~mutationLoading'.delete
           /\ ~(Sends("add") \/ Delivers("addRes")) => FlagUnchanged("add")
           /\ ~(Sends("delete") \/ Delivers("deleteRes")) =>
                 FlagUnchanged("delete")
         ]_vars
    /\ mutationLoading.add ~> ~mutationLoading.add
    /\ mutationLoading.delete ~> ~mutationLoading.delete

\* The failed response of an add has just reset the adding flag while a
\* delete is still awaiting its response, its flag untouched.
C22_AddFailedDuringDelete ==
    /\ ev.msg.kind = "addRes" /\ ~ev.msg.ok
    /\ ~mutationLoading.add
    /\ mutationLoading.delete
    /\ \E k \in 1..Len(req) : req[k].kind = "delete"

----------------------------------------------------------------------------
\* The response at the head of the socket confirms an update, and every
\* other update awaiting its response is for a different node.
ConfirmsUpdate ==
    /\ Delivers("updateRes") /\ Head(resp).ok /\ loaded
    /\ \A k \in 2..Len(layers) : layers[k].id # Head(resp).id

(* C23: the confirmed response of an update puts the confirmed observation
   of its node in the store and in the History Log, and leaves what the store
   holds and shows for every other node as it was, also while an update of
   another node is awaiting its response. *)
C23_NoLostUpdate ==
    [][ConfirmsUpdate =>
          LET e == Head(resp).entry
          IN  /\ e.id \in Ids(cache) =>
                    /\ EntryOf(cache', e.id) = e
                    /\ e \in Range(voltageHistory')
                    /\ EntryOf(View(cache', layers'), e.id) = e
              /\ Ids(cache') = Ids(cache)
              /\ \A j \in Ids(cache) \ {e.id} :
                    /\ EntryOf(cache', j) = EntryOf(cache, j)
                    /\ EntryOf(View(cache', layers'), j)
                         = EntryOf(View(cache, layers), j)
      ]_vars

\* The first of two updates in flight together was just confirmed: its node
\* holds the confirmed observation, the other node still shows its own
\* optimistic one.
C23_FirstOfTwoConfirmed ==
    /\ ev.msg.kind = "updateRes" /\ ev.msg.ok
    /\ layers # <<>> /\ Head(layers).id # ev.msg.id
    /\ EntryOf(View(cache, layers), ev.msg.id) = ev.msg.entry
    /\ EntryOf(View(cache, layers), Head(layers).id) = Head(layers)
    /\ ev.layer.voltage # Head(layers).voltage

----------------------------------------------------------------------------
\* The ids of the entities the store holds, and of those it shows.
Known == Ids(cache) \cup Ids(View(cache, layers))

(* C24: an entity enters the store only with a snapshot response or the
   confirmed response of an add; a push message or an update response never
   adds an id the store does not have. *)
C24_CreatedBySnapshotOrAdd ==
    [][ /\ (Known' \ Known # {}) =>
              \/ Delivers("queryRes")
              \/ Delivers("addRes") /\ Head(resp).ok
        /\ (Delivers("push") \/ Delivers("updateRes")) =>
              /\ Known' \subseteq Known
              /\ Head(resp).id \notin Known => Head(resp).id \notin Known'
      ]_vars

\* A push message arrived before the first snapshot, for a node the store
\* did not have, was taken by the subscription, and created no entity.
C24_PushBeforeSnapshot ==
    /\ ev.msg.kind = "push"
    /\ subData = ev.msg.entry
    /\ ev.msg.id \notin Known

----------------------------------------------------------------------------
\* No two entries of the grid g have the same id.
UniqueIds(g) == Cardinality(Ids(g)) = Len(g)

(* C25: the grid list the store holds, and the one it shows, never has two
   entries with the same id. *)
C25_UniqueIds == UniqueIds(cache) /\ UniqueIds(View(cache, layers))

\* addNode was called with the id of a node the store has: the server
\* refused, and the store still has that node once.
C25_DuplicateAddRefused ==
    /\ ev.msg.kind = "addRes" /\ ~ev.msg.ok
    /\ ev.msg.id \in Ids(cache)
    /\ Count(cache, LAMBDA x : x.id = ev.msg.id) = 1

----------------------------------------------------------------------------
\* The entries of a are entries of b, in the same relative order.
RECURSIVE IsSubseq(_, _)
IsSubseq(a, b) ==
    IF a = <<>> THEN TRUE
    ELSE IF b = <<>> THEN FALSE
    ELSE IF Head(a) = Head(b) THEN IsSubseq(Tail(a), Tail(b))
    ELSE IsSubseq(a, Tail(b))

\* The response at the head of the socket is the snapshot of a refresh.
Refreshes == Delivers("queryRes") /\ Head(resp).ok

\* The History Log entries of the nodes the snapshot still has.
Surviving == SelectSeq(voltageHistory, LAMBDA x : x.id \in Ids(Head(resp).grid))

\* The refresh keeps, unchanged and in order, every entry of the nodes the
\* snapshot still has (below the cap).
RefreshKeepsEntries ==
    (Refreshes /\ Len(voltageHistory') < MAX_HISTORY) =>
        IsSubseq(Surviving, voltageHistory')

\* A refresh that delivers only observations already recorded leaves the
\* History Log as it was.
RefreshAbsorbed ==
    (Refreshes /\ Range(Head(resp).grid) \subseteq Range(voltageHistory)) =>
        voltageHistory' = voltageHistory

(* C26: apart from eviction at the cap and the purge of a node the snapshot
   no longer has, every History Log entry present before a refresh is present
   after it, unchanged and in the same relative order; a refresh that
   delivers only observations already recorded leaves the log unchanged. *)
C26_RefreshKeepsHistory == [][RefreshKeepsEntries /\ RefreshAbsorbed]_vars

----------------------------------------------------------------------------
\* The response at the head of the socket reports that a refresh failed.
RefreshFails == Delivers("queryErr") /\ Head(resp).ok

(* C27: when a refresh fails, an alert about the failure is raised, the
   refreshing flag is reset, the store and the History Log are left as they
   were, and the dashboard stays loaded, ready for the next event. *)
C27_FailedRefreshSurfaced ==
    [][RefreshFails =>
          /\ \E i \in DOMAIN alerts : alerts'[i] # alerts[i]
          /\ ~isRefreshing'
          /\ UNCHANGED <<cache, layers, voltageHistory>>
          /\ loaded'
      ]_vars

\* What the latest App does when a refresh fails: everything the claim says,
\* except that no alert is raised.
C27_FailedRefreshSilent ==
    [][RefreshFails =>
          /\ isRefreshing /\ ~isRefreshing'
          /\ UNCHANGED <<cache, layers, voltageHistory, alerts>>
          /\ loaded'
      ]_vars

----------------------------------------------------------------------------
\* The timeout started by the latest merge, while its 500 ms are running.
InWindow ==
    /\ clearTimers # <<>>
    /\ clearTimers[Len(clearTimers)].due > now

(* C28: for the whole 500 ms that follow a merge, updatedId is the id of
   that merge (the latest one): the timeout of an earlier merge does not
   clear it; with no timeout pending updatedId is null; and a highlight is
   always eventually cleared. *)
C28_HighlightWindow ==
    /\ [](InWindow => updatedId = clearTimers[Len(clearTimers)].id)
    /\ [](clearTimers = <<>> => updatedId = None)
    /\ (updatedId # None ~> updatedId = None)

\* The parts of C28 that do not depend on an earlier timeout: the highlight
\* is set by the merge, nothing is highlighted once no timeout is pending,
\* and a highlight is always eventually cleared.
C28_HighlightEnds ==
    /\ [][(Len(clearTimers') > Len(clearTimers)) =>
             updatedId' = clearTimers'[Len(clearTimers')].id]_vars
    /\ [](clearTimers = <<>> => updatedId = None)
    /\ (updatedId # None ~> updatedId = None)

----------------------------------------------------------------------------
\* The alerts on screen, without the one put up by the n-th addAlert call.
Without(as, n) == SelectSeq(as, LAMBDA a : a.reg # n)

(* C29: the timeout started by an addAlert call removes the alert of that
   call and no other: every other alert on screen, one with the same text
   included, stays until its own timeout, an eviction or Clear. *)
C29_ExpiryRemovesOnlyItsAlert ==
    [][Expires => alertsV1' = Without(alertsV1, Head(alertTimers).toast.reg)]_vars

\* What the timeout does: it removes every alert on screen whose text is
\* the text of its own alert.
C29_ExpiryRemovesByText ==
    [][(Expires /\ mounted) =>
          alertsV1' = SelectSeq(alertsV1,
                         LAMBDA a : a.text # Head(alertTimers).toast.text)]_vars

----------------------------------------------------------------------------
\* A mutation of the given kind was submitted and its response has not been
\* handled yet.
AwaitsResponse(kind) ==
    \/ \E k \in 1..Len(req) : req[k].kind = kind
    \/ \E k \in 1..Len(resp) : resp[k].kind = kind \o "Res"

(* C30: while at least one delete is awaiting its response the deleting
   flag is true, and while at least one add is awaiting its response the
   adding flag is true, also when several requests of one kind overlap. *)
C30_FlagWhileInFlight ==
    /\ AwaitsResponse("delete") => mutationLoading.delete
    /\ AwaitsResponse("add") => mutationLoading.add

\* The part of C30 that holds: only one add is in flight at a time (the Add
\* button is disabled while adding), so the adding flag covers it.
C30_AddFlagWhileInFlight == AwaitsResponse("add") => mutationLoading.add

====
